---- MODULE Spec2Model ----
(***************************************************************************)
(* Model of the checkpointed two-pass enrichment run of                    *)
(* Catalog_Enrichment_Scraper: main() of src/main.py with the checkpoint   *)
(* functions, AmazonScraper of src/scrapers/amazon_scraper.py and          *)
(* BaserowConnector.update_rows of src/connectors/baserow_connector.py.    *)
(*                                                                         *)
(* One behaviour is a sequence of runs of the program over one catalogue   *)
(* and one checkpoint file.  A run is main() cut into steps at its calls   *)
(* to the outside world (store, browser, file system); between two steps   *)
(* the process may be killed (Crash), and a later run starts from the      *)
(* file system alone (Resume).                                             *)
(***************************************************************************)
EXTENDS Integers, Sequences, FiniteSets, TLC

(***************************************************************************)
(* Bounds of the model.                                                    *)
(***************************************************************************)
MaxRows == 2        \* rows of the catalogue table
MaxCap  == 1        \* largest scraper.max_items_to_scrape tried
MaxRuns == 2        \* runs of the program in one behaviour
LongRows    == 51   \* rows of the long catalogue (one more than CHECKPOINT_EVERY)
MaxSwitches == 1    \* changes of page kind in a run over the long catalogue

(***************************************************************************)
(* Program constants.                                                      *)
(***************************************************************************)
CHECKPOINT_EVERY == 50      \* main.py:218  if checkpoint_counter >= 50
batch_size       == 200     \* baserow_connector.py:58

(***************************************************************************)
(* Values.  A Python dict is a function on Keys; a key the dict does not   *)
(* hold maps to Absent, a key holding None maps to None.                   *)
(***************************************************************************)
ASINS  == {"A1", "A2"}
Blank  == " "          \* a cell holding white space only
None   == "None"
Absent == "<absent>"
RowIds == <<"r1", "r2", "r3", "r4", "r5", "r6">>

Keys == {"id", "ASIN", "URL", "Title", "Brand", "Price", "Status", "page_status",
         "Listing Status", "Enrichment Status", "Last Enriched At"}

EmptyDict == [k \in Keys |-> Absent]

\* d[k] = v
Put(d, k, v) == [d EXCEPT ![k] = v]

\* d.get(k)
Get(d, k) == IF d[k] = Absent THEN None ELSE d[k]

\* d.get(k, default)
GetOr(d, k, default) == IF d[k] = Absent THEN default ELSE d[k]

\* truth value of a Python string-or-None
Truthy(v) == v \notin {None, Absent, ""}

Range(s) == {s[i] : i \in 1..Len(s)}

Min(a, b) == IF a < b THEN a ELSE b

(***************************************************************************)
(* The catalogue table: rows with a store-assigned id and an identifier    *)
(* column that may be blank and may repeat.                                *)
(***************************************************************************)
CatalogueOf(col) == [i \in 1..Len(col) |-> [id |-> RowIds[i], asin |-> col[i]]]

\* the program treats all identifiers alike, so of the columns that differ
\* only by exchanging "A1" and "A2" the one that shows "A1" first is taken
FirstIsA1(col) ==
    \A i \in 1..Len(col) : col[i] = "A2" => \E j \in 1..(i - 1) : col[j] = "A1"

Columns ==
    {col \in UNION {[1..n -> ASINS \cup {Blank}] : n \in 0..MaxRows} : FirstIsA1(col)}

Catalogues == {CatalogueOf(col) : col \in Columns}

(***************************************************************************)
(* What the product page of an identifier shows when it is fetched.        *)
(***************************************************************************)
Pages == {"not_found", "found", "no_title", "error"}

VARIABLES
    catalogue,              \* the Catalogue table in the store
    scrape_limit,           \* config scraper.max_items_to_scrape
    file,                   \* checkpoint.json: [exists, items]
    run,                    \* number of the current run
    pc,                     \* position of the current run in main()
    outcome,                \* how the run ended
    processed_asins,        \* main.py:165
    asins_to_scrape,        \* main.py:160-174
    idx,                    \* position of the running for loop
    updates_to_send,        \* main.py:190
    failed_asins_for_retry, \* main.py:191
    checkpoint_counter,     \* main.py:192
    driver,                 \* scraper.driver
    exc,                    \* where an exception now propagating was raised
    calls,                  \* history: scrape_product calls of this run
    acquires,               \* history: drivers created in this run
    quits,                  \* history: driver.quit() calls of this run
    saves,                  \* history: sets written by save_checkpoint in this run
    fileAtStart,            \* history: the checkpoint file when the run started
    requests,               \* history: chunks PATCHed to the Catalogue table
    ancRequests,            \* history: chunks PATCHed to ancillary tables
    removed,                \* history: where this run removed checkpoint.json
    prevP1,                 \* history: pass-1 calls per identifier in the previous
                            \* run, if it was cut short after a checkpoint save
    prevEnd,                \* history: how the previous run ended
    prevFailed              \* history: identifiers that failed in pass 1 of the
                            \* previous run, if it sent no payload

vars == <<catalogue, scrape_limit, file, run, pc, outcome, processed_asins,
          asins_to_scrape, idx, updates_to_send, failed_asins_for_retry,
          checkpoint_counter, driver, exc, calls, acquires, quits, saves,
          fileAtStart, requests, ancRequests, removed, prevP1, prevEnd,
          prevFailed>>

inputVars == <<catalogue, scrape_limit>>
localVars == <<processed_asins, asins_to_scrape, idx, updates_to_send,
               failed_asins_for_retry, checkpoint_counter>>
storeVars == <<requests, ancRequests>>
prevVars  == <<prevP1, prevEnd, prevFailed>>

(***************************************************************************)
(* Checkpoint functions, main.py:55-70.  checkpoint.json holds a JSON      *)
(* array: json.dump(list(set)) writes the members once each in the set's   *)
(* iteration order, set(json.load()) forgets the order.  The file is       *)
(* complete when the array was written to its closing bracket and the      *)
(* file closed.                                                            *)
(***************************************************************************)
NoFile == [exists |-> FALSE, items |-> <<>>, complete |-> TRUE]

RECURSIVE ListOf(_)
ListOf(S) ==
    IF S = {} THEN <<>>
    ELSE LET x == CHOOSE y \in S : TRUE IN <<x>> \o ListOf(S \ {x})

save_checkpoint(processed) ==
    [exists |-> TRUE, items |-> ListOf(processed), complete |-> TRUE]

\* the file of a save_checkpoint(processed) whose process was killed after
\* open(CHECKPOINT_FILE, 'w') emptied the file and before the with block
\* closed it: the first n members reached the disk, the closing bracket
\* did not
save_checkpoint_killed(processed, n) ==
    [exists |-> TRUE, items |-> SubSeq(ListOf(processed), 1, n), complete |-> FALSE]

\* json.load(f) returns: the text of the file is a whole JSON document
json_load_returns(f) == f.complete

\* the file ignored: every run starts from the empty set
load_checkpoint_empty(f) == {}

load_checkpoint(f) == IF f.exists THEN Range(f.items) ELSE {}

\* the removal left out: the file stays as it is
remove_checkpoint_kept(f) == f

\* os.remove(CHECKPOINT_FILE) guarded by os.path.exists
remove_checkpoint(f) == NoFile

(***************************************************************************)
(* Selection of the rows to scrape, main.py:160-174.                       *)
(***************************************************************************)
Strip(s) == IF s \in {" ", "  "} THEN "" ELSE s

\* notna() & (str.strip() != '')
HasIdentifier(rows) ==
    SelectSeq(rows, LAMBDA r : r.asin # None /\ Strip(r.asin) # "")

\* the filter left out: every row stays
SkipProcessed_unfiltered(rows, processed) == rows

\* if processed_asins: rows[~rows[ASIN].isin(processed_asins)]
SkipProcessed(rows, processed) ==
    IF processed # {}
    THEN SelectSeq(rows, LAMBDA r : r.asin \notin processed)
    ELSE rows

\* if scrape_limit > 0: rows.head(scrape_limit)
ApplyLimit(rows, limit) ==
    IF limit > 0 THEN SubSeq(rows, 1, Min(limit, Len(rows))) ELSE rows

(***************************************************************************)
(* AmazonScraper, amazon_scraper.py.                                       *)
(***************************************************************************)
NoDriver == "None"

\* _setup_driver: the driver, or None when Chrome could not be started
setup_driver(started) == IF started THEN "open" ELSE NoDriver

base_url == "https://www.amazon.in/dp/"

\* scrape_product: [raised, data].  A "found" page shows a title and a brand
\* and no price; a "no_title" page shows none of them; "error" is a fault of
\* driver.get or driver.title.  Of the optional fields, Brand and Price
\* stand for all eight.
scrape_product(drv, asin, page) ==
    IF drv # "open" \/ page = "error"
    THEN [raised |-> TRUE, data |-> EmptyDict]
    ELSE IF page = "not_found"
    THEN [raised |-> FALSE,
          data |-> Put(Put(EmptyDict, "ASIN", asin), "page_status", "not_found")]
    ELSE LET title == IF page = "found" THEN "T" ELSE None
             brand == IF page = "found" THEN "B" ELSE None
             d1 == Put(Put(EmptyDict, "ASIN", asin), "URL", base_url \o asin)
             d2 == Put(Put(Put(d1, "Title", title), "Brand", brand), "Price", None)
             d3 == Put(d2, "Status", IF Truthy(title) THEN "Active" ELSE "Inactive")
         IN [raised |-> FALSE, data |-> Put(d3, "page_status", "found")]

\* the guard inverted: driver.quit() is never reached
quit_driver_never(drv, n) == [driver |-> drv, quits |-> n]

\* quit_driver: the driver afterwards and the driver.quit() calls made so far
quit_driver(drv, n) ==
    IF drv # NoDriver
    THEN [driver |-> "closed", quits |-> n + 1]
    ELSE [driver |-> drv, quits |-> n]

(***************************************************************************)
(* BaserowConnector.update_rows, baserow_connector.py:49-76.  outs[k] is   *)
(* what the PATCH of chunk k meets: "ok", "http_error" (an error response) *)
(* or "no_response" (a RequestException that carries no response, whose    *)
(* e.response.text raises AttributeError in the handler).                  *)
(***************************************************************************)
ChunkOutcomes == {"ok", "http_error", "no_response"}

NumChunks(rows_data) == (Len(rows_data) + batch_size - 1) \div batch_size

Chunk(rows_data, k) ==
    SubSeq(rows_data, (k - 1) * batch_size + 1, Min(k * batch_size, Len(rows_data)))

\* the first chunk whose handler raises, 0 when none does
FirstRaise(n, outs) ==
    IF \E k \in 1..n : outs[k] = "no_response"
    THEN CHOOSE k \in 1..n : outs[k] = "no_response"
                              /\ \A j \in 1..(k - 1) : outs[j] # "no_response"
    ELSE 0

\* update_rows: [raised, result, sent], sent the chunks PATCHed in order
update_rows(rows_data, outs) ==
    IF rows_data = <<>>
    THEN [raised |-> FALSE, result |-> TRUE, sent |-> <<>>]
    ELSE LET n    == NumChunks(rows_data)
             stop == FirstRaise(n, outs)
             last == IF stop = 0 THEN n ELSE stop
         IN [raised |-> stop # 0,
             result |-> \A k \in 1..last : outs[k] = "ok",
             sent   |-> [k \in 1..last |-> Chunk(rows_data, k)]]

(***************************************************************************)
(* Payload preparation, main.py:246-263: payload_item is built and then    *)
(* the update itself is appended to final_payload.                         *)
(***************************************************************************)
\* datetime.now().isoformat()
now == "2024-01-01T00:00:00"

\* payload_item[k] = update[k] if update.get(k)
PutIfTruthy(item, k, update, from) ==
    IF Truthy(Get(update, from)) THEN Put(item, k, update[from]) ELSE item

\* main.py:249-262: the entry built for an update
payload_item(update) ==
    LET p0 == Put(Put(Put(EmptyDict, "id", update["id"]),
                      "Enrichment Status", GetOr(update, "Enrichment Status", "Success")),
                  "Last Enriched At", now)
        p1 == PutIfTruthy(p0, "Listing Status", update, "Status")
        p2 == PutIfTruthy(p1, "Title", update, "Title")
        p3 == PutIfTruthy(p2, "Brand", update, "Brand")
    IN PutIfTruthy(p3, "Price", update, "Price")

\* main.py:247-263: final_payload.append(update), payload_item is dropped
final_payload(updates) == [i \in 1..Len(updates) |-> updates[i]]

(***************************************************************************)
(* update_ancillary_tables, main.py:73-138, for one enabled table matched  *)
(* on its 'Asin' column.                                                   *)
(***************************************************************************)
SuccessLabels == {"Success", "Success (on retry)"}

\* main.py:273
successful_updates(updates) ==
    SelectSeq(updates,
              LAMBDA u : GetOr(u, "Enrichment Status", "Success") \in SuccessLabels)

\* main.py:82
active_asins(successful) == {successful[i]["ASIN"] : i \in 1..Len(successful)}

AncillaryTable == <<[id |-> "x1", Asin |-> "A1"], [id |-> "x2", Asin |-> "A2"]>>

\* main.py:114, 125-129
ancillary_payload(active) ==
    LET rows == SelectSeq(AncillaryTable, LAMBDA r : r.Asin \in active)
    IN [i \in 1..Len(rows) |-> [id |-> rows[i].id, Status |-> "Active"]]

(***************************************************************************)
(* The loop bodies of main(), as functions of the local variables.         *)
(***************************************************************************)
Locals == [processed |-> processed_asins, updates |-> updates_to_send,
           failed |-> failed_asins_for_retry, counter |-> checkpoint_counter,
           file |-> file, saves |-> saves]

\* main.py:202, 231
NotFoundUpdate(baserow_id) ==
    Put(Put(Put(EmptyDict, "id", baserow_id), "Listing Status", "Deleted"),
        "Enrichment Status", "ASIN Not Found")

\* main.py:213
RetryItem(baserow_id, asin) == Put(Put(EmptyDict, "id", baserow_id), "ASIN", asin)

\* main.py:240
ScrapeFailedUpdate(baserow_id) ==
    Put(Put(EmptyDict, "id", baserow_id), "Enrichment Status", "Scrape Failed")

\* the set emptied once it has been written
periodic_save_flushing(l) ==
    IF l.counter >= CHECKPOINT_EVERY
    THEN [l EXCEPT !.file = save_checkpoint(l.processed),
                   !.saves = Append(l.saves, l.processed),
                   !.counter = 0,
                   !.processed = {}]
    ELSE l

\* main.py:217-220
periodic_save(l) ==
    IF l.counter >= CHECKPOINT_EVERY
    THEN [l EXCEPT !.file = save_checkpoint(l.processed),
                   !.saves = Append(l.saves, l.processed),
                   !.counter = 0]
    ELSE l

\* a failed row put at the head of the retry list, not at its end
pass1_body_retry_first(l, row, drv, page) ==
    LET r == scrape_product(drv, row.asin, page)
    IN IF ~r.raised /\ Get(r.data, "page_status") = "not_found"
       THEN [l EXCEPT !.updates = Append(l.updates, NotFoundUpdate(row.id))]
       ELSE IF ~r.raised /\ Truthy(Get(r.data, "Title"))
       THEN periodic_save(
                [l EXCEPT !.updates = Append(l.updates, Put(r.data, "id", row.id)),
                          !.processed = l.processed \cup {row.asin},
                          !.counter = l.counter + 1])
       ELSE periodic_save(
                [l EXCEPT !.failed = <<RetryItem(row.id, row.asin)>> \o l.failed,
                          !.processed = l.processed \cup {row.asin},
                          !.counter = l.counter + 1])

\* main.py:197-220, one iteration of the first pass
pass1_body(l, row, drv, page) ==
    LET r == scrape_product(drv, row.asin, page)
    IN IF ~r.raised /\ Get(r.data, "page_status") = "not_found"
       THEN \* continue: neither the add nor the periodic save is reached
            [l EXCEPT !.updates = Append(l.updates, NotFoundUpdate(row.id))]
       ELSE IF ~r.raised /\ Truthy(Get(r.data, "Title"))
       THEN periodic_save(
                [l EXCEPT !.updates = Append(l.updates, Put(r.data, "id", row.id)),
                          !.processed = l.processed \cup {row.asin},
                          !.counter = l.counter + 1])
       ELSE periodic_save(
                [l EXCEPT !.failed = Append(l.failed, RetryItem(row.id, row.asin)),
                          !.processed = l.processed \cup {row.asin},
                          !.counter = l.counter + 1])

\* main.py:226-240, one iteration of the retry pass
pass2_body(l, item, drv, page) ==
    LET r == scrape_product(drv, item["ASIN"], page)
    IN IF ~r.raised /\ Get(r.data, "page_status") = "not_found"
       THEN [l EXCEPT !.updates = Append(l.updates, NotFoundUpdate(item["id"]))]
       ELSE IF ~r.raised /\ Truthy(Get(r.data, "Title"))
       THEN [l EXCEPT !.updates =
                Append(l.updates,
                       Put(Put(r.data, "id", item["id"]),
                           "Enrichment Status", "Success (on retry)"))]
       ELSE [l EXCEPT !.updates = Append(l.updates, ScrapeFailedUpdate(item["id"]))]

SetLocals(l) ==
    /\ processed_asins' = l.processed
    /\ updates_to_send' = l.updates
    /\ failed_asins_for_retry' = l.failed
    /\ checkpoint_counter' = l.counter
    /\ file' = l.file
    /\ saves' = l.saves

Call(pass, asin, baserow_id, page) ==
    [pass |-> pass, asin |-> asin, id |-> baserow_id, page |-> page,
     driver |-> driver]

(***************************************************************************)
(* The runs.                                                               *)
(***************************************************************************)
\* a process that has just been started: nothing of main() has run yet
FreshRun ==
    /\ pc = "start"
    /\ outcome = "running"
    /\ processed_asins = {}
    /\ asins_to_scrape = <<>>
    /\ idx = 0
    /\ updates_to_send = <<>>
    /\ failed_asins_for_retry = <<>>
    /\ checkpoint_counter = 0
    /\ driver = NoDriver
    /\ exc = {}
    /\ calls = <<>>
    /\ acquires = 0
    /\ quits = 0
    /\ saves = <<>>
    /\ fileAtStart = file
    /\ requests = <<>>
    /\ ancRequests = <<>>
    /\ removed = "no"

Init ==
    /\ catalogue \in Catalogues
    /\ scrape_limit \in 0..MaxCap
    /\ file = NoFile
    /\ run = 1
    /\ prevP1 = [a \in ASINS |-> 0]
    /\ prevEnd = "none"
    /\ prevFailed = {}
    /\ FreshRun

\* return, or an exception leaving main()
Ended(how) == pc' = "ended" /\ outcome' = how

Raise(where) == exc' = exc \cup {where} /\ Ended("exception")

\* main.py:155-183: fetch the catalogue, select the rows, load the checkpoint
Select ==
    /\ pc = "start"
    /\ UNCHANGED <<inputVars, run, idx, updates_to_send, failed_asins_for_retry,
                   checkpoint_counter, driver, calls, acquires, quits, saves,
                   fileAtStart, storeVars, prevVars>>
    /\ \E fetched \in BOOLEAN :
        IF ~fetched
        THEN \* get_table_as_dataframe re-raises the RequestException
             /\ Raise("fetch")
             /\ UNCHANGED <<file, processed_asins, asins_to_scrape, removed>>
        ELSE IF catalogue = <<>>
        THEN /\ Ended("empty_catalogue")
             /\ UNCHANGED <<file, processed_asins, asins_to_scrape, removed, exc>>
        ELSE IF file.exists /\ ~json_load_returns(file)
        THEN \* load_checkpoint: json.load raises JSONDecodeError
             /\ Raise("load")
             /\ UNCHANGED <<file, processed_asins, asins_to_scrape, removed>>
        ELSE LET loaded == load_checkpoint(file)
                 rows   == ApplyLimit(SkipProcessed(HasIdentifier(catalogue), loaded),
                                      scrape_limit)
             IN /\ processed_asins' = loaded
                /\ asins_to_scrape' = rows
                /\ exc' = exc
                /\ IF rows = <<>>
                   THEN /\ file' = remove_checkpoint(file)
                        /\ removed' = IF file.exists THEN "nothing_to_do" ELSE removed
                        /\ Ended("nothing_to_do")
                   ELSE /\ pc' = "setup"
                        /\ UNCHANGED <<file, removed, outcome>>

\* main.py:187-192: create the scraper
Setup ==
    /\ pc = "setup"
    /\ UNCHANGED <<inputVars, file, run, processed_asins, asins_to_scrape,
                   updates_to_send, failed_asins_for_retry, checkpoint_counter,
                   exc, calls, quits, saves, fileAtStart, storeVars, removed,
                   prevVars>>
    /\ \E started \in BOOLEAN :
        /\ driver' = setup_driver(started)
        /\ acquires' = IF started THEN acquires + 1 ELSE acquires
        /\ IF setup_driver(started) = NoDriver
           THEN Ended("no_driver") /\ idx' = idx
           ELSE pc' = "pass1" /\ idx' = 1 /\ outcome' = outcome

\* main.py:196-220: one iteration of the first pass
Pass1Step(page) ==
    /\ pc = "pass1"
    /\ UNCHANGED <<inputVars, run, outcome, asins_to_scrape, driver, exc, acquires,
                   quits, fileAtStart, storeVars, removed, prevVars>>
    /\ LET row == asins_to_scrape[idx]
           l   == pass1_body(Locals, row, driver, page)
       IN /\ SetLocals(l)
          /\ calls' = Append(calls, Call(1, row.asin, row.id, page))
          /\ IF idx < Len(asins_to_scrape)
             THEN pc' = pc /\ idx' = idx + 1
             ELSE IF l.failed # <<>>
             THEN pc' = "pass2" /\ idx' = 1
             ELSE pc' = "quit" /\ idx' = idx

Pass1 == \E page \in Pages : Pass1Step(page)

\* main.py:223-240: one iteration of the retry pass
Pass2Step(page) ==
    /\ pc = "pass2"
    /\ UNCHANGED <<inputVars, run, outcome, asins_to_scrape, driver, exc, acquires,
                   quits, fileAtStart, storeVars, removed, prevVars>>
    /\ LET item == failed_asins_for_retry[idx]
           l    == pass2_body(Locals, item, driver, page)
       IN /\ SetLocals(l)
          /\ calls' = Append(calls, Call(2, item["ASIN"], item["id"], page))
          /\ IF idx < Len(failed_asins_for_retry)
             THEN pc' = pc /\ idx' = idx + 1
             ELSE pc' = "quit" /\ idx' = idx

Pass2 == \E page \in Pages : Pass2Step(page)

\* main.py:194-241: an exception that no handler of the loops catches
\* (KeyboardInterrupt, SystemExit) leaves the try block
Interrupt ==
    /\ pc \in {"pass1", "pass2"}
    /\ exc' = exc \cup {pc}
    /\ pc' = "quit"
    /\ UNCHANGED <<inputVars, file, run, outcome, localVars, driver, calls,
                   acquires, quits, saves, fileAtStart, storeVars, removed,
                   prevVars>>

\* main.py:242: scraper.quit_driver(); driver.quit() may raise
QuitDriver ==
    /\ pc = "quit"
    /\ UNCHANGED <<inputVars, file, run, localVars, calls, acquires, saves,
                   fileAtStart, storeVars, removed, prevVars>>
    /\ driver' = quit_driver(driver, quits).driver
    /\ quits' = quit_driver(driver, quits).quits
    /\ \E quit_ok \in BOOLEAN :
        IF quit_ok
        THEN pc' = "save" /\ UNCHANGED <<exc, outcome>>
        ELSE Raise("release")

\* main.py:243: save_checkpoint(processed_asins), then leave the finally block
FinalSave ==
    /\ pc = "save"
    /\ file' = save_checkpoint(processed_asins)
    /\ saves' = Append(saves, processed_asins)
    /\ IF exc # {}
       THEN Ended("exception")
       ELSE pc' = "write" /\ outcome' = outcome
    /\ UNCHANGED <<inputVars, run, localVars, driver, exc, calls, acquires, quits,
                   fileAtStart, storeVars, removed, prevVars>>

\* main.py:246-271: build the payload and write it to the Catalogue table
WriteStore ==
    /\ pc = "write"
    /\ UNCHANGED <<inputVars, file, run, localVars, driver, calls, acquires, quits,
                   saves, fileAtStart, ancRequests, removed, prevVars>>
    /\ IF updates_to_send = <<>>
       THEN pc' = "ancillary" /\ UNCHANGED <<requests, exc, outcome>>
       ELSE \E outs \in [1..NumChunks(final_payload(updates_to_send)) -> ChunkOutcomes] :
            LET r == update_rows(final_payload(updates_to_send), outs)
            IN /\ requests' = requests \o r.sent
               /\ IF r.raised
                  THEN Raise("write")
                  ELSE pc' = "ancillary" /\ UNCHANGED <<exc, outcome>>

\* main.py:273-274: update_ancillary_tables
Ancillary ==
    /\ pc = "ancillary"
    /\ UNCHANGED <<inputVars, file, run, localVars, driver, calls, acquires, quits,
                   saves, fileAtStart, requests, removed, prevVars>>
    /\ LET active == active_asins(successful_updates(updates_to_send))
       IN IF active = {}
          THEN pc' = "clear" /\ UNCHANGED <<ancRequests, exc, outcome>>
          ELSE \E fetched \in BOOLEAN :
               IF ~fetched
               THEN Raise("ancillary") /\ ancRequests' = ancRequests
               ELSE \E outs \in [1..NumChunks(ancillary_payload(active)) -> ChunkOutcomes] :
                    LET r == update_rows(ancillary_payload(active), outs)
                    IN /\ ancRequests' = ancRequests \o r.sent
                       /\ IF r.raised
                          THEN Raise("ancillary")
                          ELSE pc' = "clear" /\ UNCHANGED <<exc, outcome>>

\* main.py:276-281: delete the checkpoint file and return
ClearCheckpoint ==
    /\ pc = "clear"
    /\ file' = remove_checkpoint(file)
    /\ removed' = IF file.exists THEN "completed" ELSE removed
    /\ Ended("complete")
    /\ UNCHANGED <<inputVars, run, localVars, driver, exc, calls, acquires, quits,
                   saves, fileAtStart, storeVars, prevVars>>

P1Calls(a) == Cardinality({i \in 1..Len(calls) : calls[i].pass = 1 /\ calls[i].asin = a})

\* python main.py in a fresh process: only checkpoint.json and the store are
\* what the run before left
\* the identifiers whose pass-1 attempt of this run failed (main.py:211-215)
FailedInPass1 ==
    {calls[i].asin : i \in {j \in 1..Len(calls) :
                               calls[j].pass = 1 /\ calls[j].page \in {"error", "no_title"}}}

Restart(how, left) ==
    /\ run < MaxRuns
    /\ run' = run + 1
    /\ pc' = "start"
    /\ outcome' = "running"
    /\ processed_asins' = {}
    /\ asins_to_scrape' = <<>>
    /\ idx' = 0
    /\ updates_to_send' = <<>>
    /\ failed_asins_for_retry' = <<>>
    /\ checkpoint_counter' = 0
    /\ driver' = NoDriver
    /\ exc' = {}
    /\ calls' = <<>>
    /\ acquires' = 0
    /\ quits' = 0
    /\ saves' = <<>>
    /\ file' = left
    /\ fileAtStart' = left
    /\ requests' = <<>>
    /\ ancRequests' = <<>>
    /\ removed' = "no"
    /\ prevP1' = IF how = "crashed after a save"
                 THEN [a \in ASINS |-> Min(2, P1Calls(a))]
                 ELSE [a \in ASINS |-> 0]
    /\ prevEnd' = how
    /\ prevFailed' = IF requests = <<>> THEN FailedInPass1 ELSE {}
    /\ UNCHANGED inputVars

StartAgain(how) == Restart(how, file)

\* the process is killed between two steps of main() and the program is
\* started again (a kill before the first step leaves nothing behind)
Crash ==
    /\ pc \notin {"start", "ended"}
    /\ StartAgain(IF saves # <<>> THEN "crashed after a save" ELSE "crashed")

\* the process is killed inside the final save_checkpoint, main.py:59-60,
\* and the program is started again
CrashInSave ==
    /\ pc = "save"
    /\ \E n \in 0..Cardinality(processed_asins) :
          Restart(IF saves # <<>> THEN "crashed after a save" ELSE "crashed",
                  save_checkpoint_killed(processed_asins, n))

\* the program is started again after a run that returned or raised
Resume ==
    /\ pc = "ended"
    /\ StartAgain(IF outcome # "exception" THEN "returned"
                  ELSE IF saves # <<>> THEN "crashed after a save" ELSE "crashed")

Next ==
    \/ Select
    \/ Setup
    \/ Pass1
    \/ Pass2
    \/ Interrupt
    \/ QuitDriver
    \/ FinalSave
    \/ WriteStore
    \/ Ancillary
    \/ ClearCheckpoint
    \/ Crash
    \/ CrashInSave
    \/ Resume

Spec == Init /\ [][Next]_vars

(***************************************************************************)
(* One run of main() over a catalogue one row longer and a cap one larger  *)
(* than those of Spec, started with or without a checkpoint file that an   *)
(* earlier run left.                                                       *)
(***************************************************************************)
WideColumns == [1..(MaxRows + 1) -> ASINS]

StaleFiles == {NoFile} \cup {save_checkpoint({a}) : a \in ASINS}

InitWide ==
    /\ catalogue \in {CatalogueOf(col) : col \in WideColumns}
    /\ scrape_limit \in 0..(MaxCap + 1)
    /\ file \in StaleFiles
    /\ run = 1
    /\ prevP1 = [a \in ASINS |-> 0]
    /\ prevEnd = "none"
    /\ prevFailed = {}
    /\ FreshRun

OneRun ==
    \/ Select
    \/ Setup
    \/ Pass1
    \/ Pass2
    \/ Interrupt
    \/ QuitDriver
    \/ FinalSave
    \/ WriteStore
    \/ Ancillary
    \/ ClearCheckpoint

SpecWide == InitWide /\ [][OneRun]_vars

(***************************************************************************)
(* One run of main() over a catalogue long enough for the periodic save    *)
(* of pass 1: LongRows rows with an identifier each, no two alike, no cap  *)
(* and no checkpoint file.  The product pages change their kind at most    *)
(* MaxSwitches times from one scrape_product call to the next.             *)
(***************************************************************************)
Digits == <<"0", "1", "2", "3", "4", "5", "6", "7", "8", "9">>

\* the decimal numeral of n < 100, two digits
Numeral(n) == Digits[(n \div 10) + 1] \o Digits[(n % 10) + 1]

LongCatalogue ==
    [i \in 1..LongRows |-> [id |-> "r" \o Numeral(i), asin |-> "B0" \o Numeral(i)]]

Switches ==
    Cardinality({i \in 1..(Len(calls) - 1) : calls[i].page # calls[i + 1].page})

PagesNow ==
    {p \in Pages : \/ calls = <<>>
                   \/ p = calls[Len(calls)].page
                   \/ Switches < MaxSwitches}

InitLong ==
    /\ catalogue = LongCatalogue
    /\ scrape_limit = 0
    /\ file = NoFile
    /\ run = 1
    /\ prevP1 = [a \in ASINS |-> 0]
    /\ prevEnd = "none"
    /\ prevFailed = {}
    /\ FreshRun

Pass1Long == \E page \in PagesNow : Pass1Step(page)

Pass2Long == \E page \in PagesNow : Pass2Step(page)

LongRun ==
    \/ Select
    \/ Setup
    \/ Pass1Long
    \/ Pass2Long
    \/ QuitDriver
    \/ FinalSave
    \/ WriteStore
    \/ Ancillary
    \/ ClearCheckpoint

SpecLong == InitLong /\ [][LongRun]_vars

(***************************************************************************)
(* One run of main() over the long catalogue that may be cut short by an   *)
(* exception and may start from a checkpoint file an earlier run left      *)
(* (holding an identifier whose row has since gone from the catalogue).    *)
(* The product pages change their kind at most MaxSwitches times, and      *)
(* only after every SwitchEvery-th scrape_product call.                    *)
(***************************************************************************)
SwitchEvery == CHECKPOINT_EVERY \div 2

PagesInBlocks ==
    {p \in PagesNow : \/ calls = <<>>
                      \/ p = calls[Len(calls)].page
                      \/ Len(calls) % SwitchEvery = 0}

InitSaves ==
    /\ catalogue = LongCatalogue
    /\ scrape_limit = 0
    /\ file \in {NoFile, save_checkpoint({"B000"})}
    /\ run = 1
    /\ prevP1 = [a \in ASINS |-> 0]
    /\ prevEnd = "none"
    /\ prevFailed = {}
    /\ FreshRun

Pass1Blocks == \E page \in PagesInBlocks : Pass1Step(page)

Pass2Blocks == \E page \in PagesInBlocks : Pass2Step(page)

SavesRun ==
    \/ Select
    \/ Setup
    \/ Pass1Blocks
    \/ Pass2Blocks
    \/ Interrupt
    \/ QuitDriver
    \/ FinalSave
    \/ WriteStore
    \/ Ancillary
    \/ ClearCheckpoint

SpecSaves == InitSaves /\ [][SavesRun]_vars

(***************************************************************************)
(* Vocabulary of the properties.                                           *)
(***************************************************************************)
RECURSIVE Flatten(_)
Flatten(chunks) ==
    IF chunks = <<>> THEN <<>> ELSE Head(chunks) \o Flatten(Tail(chunks))

\* the entries PATCHed to the Catalogue table by this run, in order
SentItems == Flatten(requests)

\* the identifiers in checkpoint.json when this run started
CheckpointedAtStart == IF fileAtStart.exists THEN Range(fileAtStart.items) ELSE {}

\* the rows of the catalogue that carry identifier a
RowsOf(a) == {catalogue[i].id : i \in {j \in 1..Len(catalogue) : catalogue[j].asin = a}}

\* the identifiers of the catalogue
Identifiers == {catalogue[i].asin : i \in 1..Len(catalogue)} \ {Blank}

\* the scrape_product calls of this run for identifier a in a pass
CallsOf(pass, a) == {i \in 1..Len(calls) : calls[i].pass = pass /\ calls[i].asin = a}

P2Calls(a) == Cardinality(CallsOf(2, a))

\* the positions of the entries for identifier a in a list of updates
EntriesOf(items, a) == {i \in 1..Len(items) : items[i]["id"] \in RowsOf(a)}

Label(u) == GetOr(u, "Enrichment Status", "Success")

Failing == {"error", "no_title"}

\* the run returned or raised
Exited == pc = "ended"

\* the run went through the store write
Written == requests # <<>>

(***************************************************************************)
(* C1.  Crash and resume: when a run over a set of pending identifiers     *)
(* (one row each) is interrupted after at least one checkpoint save and    *)
(* the program is run again over the same catalogue to completion (no      *)
(* cap), every identifier has had exactly one pass-1 extractor attempt     *)
(* across the two runs.                                                    *)
(***************************************************************************)
C1_ExactlyOnceAcrossCrash ==
    (/\ run = 2
     /\ \A a \in Identifiers : Cardinality(RowsOf(a)) = 1
     /\ prevEnd = "crashed after a save"
     /\ scrape_limit = 0
     /\ Exited
     /\ outcome \in {"complete", "nothing_to_do"})
    => \A a \in Identifiers : prevP1[a] + P1Calls(a) = 1

(***************************************************************************)
(* C2.  Every identifier whose pass-1 attempt has concluded, whatever the  *)
(* result, is a member of the in-memory checkpoint set; so after k         *)
(* distinct identifiers were processed from an empty checkpoint the set    *)
(* has at least k members.                                                 *)
(***************************************************************************)
C2_AttemptedIsCheckpointed ==
    /\ \A i \in 1..Len(calls) : calls[i].pass = 1 => calls[i].asin \in processed_asins
    /\ CheckpointedAtStart = {} =>
         Cardinality(processed_asins) >= Cardinality({a \in ASINS : P1Calls(a) > 0})

(***************************************************************************)
(* C3.  An identifier that is in the checkpoint file loaded at run start   *)
(* is never passed to the extractor in that run, in either pass, and no    *)
(* update or payload entry is produced for any of its rows.                *)
(***************************************************************************)
C3_CheckpointedNeverScraped ==
    \A a \in CheckpointedAtStart :
        /\ \A i \in 1..Len(calls) : calls[i].asin # a
        /\ EntriesOf(updates_to_send, a) = {}
        /\ EntriesOf(SentItems, a) = {}

\* a run that resumed from a non-empty checkpoint, scraped and wrote
C3_Witness ==
    /\ CheckpointedAtStart # {}
    /\ \E i \in 1..Len(calls) : calls[i].pass = 2
    /\ Written

(***************************************************************************)
(* C4.  Deduplication: pass 1 calls the extractor exactly once for an      *)
(* identifier that several rows share, and the payload holds one entry     *)
(* for each of these rows, all with the same enrichment result.            *)
(***************************************************************************)
C4_OneCallPerIdentifier ==
    /\ \A a \in ASINS : P1Calls(a) <= 1
    /\ Written =>
         \A a \in ASINS :
            P1Calls(a) > 0 =>
                /\ \A r \in RowsOf(a) :
                     Cardinality({i \in 1..Len(SentItems) : SentItems[i]["id"] = r}) = 1
                /\ \A i, j \in EntriesOf(SentItems, a) :
                     Put(SentItems[i], "id", Absent) = Put(SentItems[j], "id", Absent)

(***************************************************************************)
(* C5.  Retry semantics: an identifier whose pass-1 attempt failed and     *)
(* whose pass-2 attempt returned a title appears exactly once in the       *)
(* payload sent to the store, labelled 'Success (on retry)'; and an        *)
(* identifier that succeeded in pass 1 is never attempted in pass 2.       *)
(***************************************************************************)
C5_RetrySuccessOnceInPayload ==
    \A a \in ASINS :
        /\ (/\ Written
            /\ \E i \in CallsOf(1, a) : calls[i].page \in Failing
            /\ \E i \in CallsOf(2, a) : calls[i].page = "found")
           => /\ Cardinality(EntriesOf(SentItems, a)) = 1
              /\ \A i \in EntriesOf(SentItems, a) :
                    SentItems[i]["Enrichment Status"] = "Success (on retry)"
        /\ (\E i \in CallsOf(1, a) : calls[i].page = "found") => CallsOf(2, a) = {}

(***************************************************************************)
(* C6.  In pass 2 each queued identifier is attempted exactly once more;   *)
(* a second failure yields 'Scrape Failed', does not stop the remaining    *)
(* retries, and its entry is in the payload written to the store.          *)
(***************************************************************************)
C6_RetriedOnceAndFailureWritten ==
    Written =>
        \A a \in ASINS :
            (\E i \in 1..Len(failed_asins_for_retry) : failed_asins_for_retry[i]["ASIN"] = a)
            => /\ P2Calls(a) = 1
               /\ \A i \in CallsOf(2, a) :
                     calls[i].page \in Failing =>
                        \E j \in 1..Len(SentItems) :
                            /\ SentItems[j]["id"] = calls[i].id
                            /\ SentItems[j]["Enrichment Status"] = "Scrape Failed"

(***************************************************************************)
(* C7.  In pass 1 the extractor is invoked exactly once for every          *)
(* remaining identifier, a failure on one never keeping the later ones     *)
(* from being attempted; when the run completes, every attempted           *)
(* identifier has exactly one of the four outcomes.                        *)
(***************************************************************************)
C7_OncePerIdentifierOneOutcome ==
    ((pc \in {"pass2", "quit"} /\ exc = {}) \/ (Exited /\ outcome = "complete"))
    => \A a \in {asins_to_scrape[i].asin : i \in 1..Len(asins_to_scrape)} :
          /\ P1Calls(a) = 1
          /\ (Exited /\ outcome = "complete") =>
                Cardinality(EntriesOf(updates_to_send, a)) = 1

(***************************************************************************)
(* C8.  On every exit from the scraping phase once the extractor was       *)
(* acquired, a failing release included, a final checkpoint save of the    *)
(* whole checkpoint set has been performed when the run terminates.        *)
(***************************************************************************)
C8_FinalSaveOnEveryExit ==
    (Exited /\ acquires > 0)
    => /\ saves # <<>>
       /\ saves[Len(saves)] = processed_asins
       /\ (outcome = "exception" => file.exists /\ Range(file.items) = processed_asins)

C10_CheckpointKeptOnException ==
    /\ removed = "nothing_to_do" => asins_to_scrape = <<>>
    /\ removed = "completed" => exc = {} /\ Written
    /\ (/\ Exited
        /\ outcome = "exception"
        /\ exc \cap {"pass1", "pass2", "write", "ancillary"} # {})
       => file.exists

(***************************************************************************)
(* Row-level facts behind C5, C6 and C7: what the two passes guarantee     *)
(* for each row, whether or not rows share an identifier.                  *)
(***************************************************************************)
RowCalls(pass, r) == {i \in 1..Len(calls) : calls[i].pass = pass /\ calls[i].id = r}

\* the loop of pass 1 ran to its end
Pass1Over == acquires = 1 /\ pc # "pass1" /\ "pass1" \notin exc

\* every selected row is scraped exactly once in pass 1, whatever the
\* results of the rows before it
RowsScrapedOnceInPass1 ==
    /\ \A i \in 1..Len(calls) : Cardinality(RowCalls(calls[i].pass, calls[i].id)) = 1
    /\ Pass1Over =>
         \A i \in 1..Len(asins_to_scrape) :
            Cardinality(RowCalls(1, asins_to_scrape[i].id)) = 1

\* a row is retried exactly when its pass-1 attempt failed, and when the
\* payload has been sent it holds exactly one entry for every selected row,
\* labelled by what its last attempt returned
RowsRetriedOnceAndWritten ==
    /\ \A i \in 1..Len(calls) :
         calls[i].pass = 2 =>
            \E j \in 1..(i - 1) : /\ calls[j].pass = 1
                                  /\ calls[j].id = calls[i].id
                                  /\ calls[j].page \in Failing
    /\ Written =>
         /\ Len(SentItems) = Len(asins_to_scrape)
         /\ \A i \in 1..Len(asins_to_scrape) :
              LET r    == asins_to_scrape[i].id
                  last == CHOOSE k \in RowCalls(1, r) \cup RowCalls(2, r) :
                             \A m \in RowCalls(1, r) \cup RowCalls(2, r) : m <= k
                  sent == {j \in 1..Len(SentItems) : SentItems[j]["id"] = r}
              IN /\ Cardinality(sent) = 1
                 /\ calls[last].page \in Failing <=> calls[last].pass = 2 /\
                       \A j \in sent : SentItems[j]["Enrichment Status"] = "Scrape Failed"
                 /\ (calls[last].page = "found" /\ calls[last].pass = 2) =>
                       \A j \in sent : SentItems[j]["Enrichment Status"] = "Success (on retry)"
                 /\ (calls[last].page = "found" /\ calls[last].pass = 1) =>
                       \A j \in sent : Label(SentItems[j]) = "Success"
                 /\ calls[last].page = "not_found" =>
                       \A j \in sent : SentItems[j]["Enrichment Status"] = "ASIN Not Found"

RECURSIVE FirstOccurrences(_)
FirstOccurrences(s) ==
    IF s = <<>> THEN <<>>
    ELSE LET rest == FirstOccurrences(SubSeq(s, 1, Len(s) - 1))
             last == s[Len(s)]
         IN IF last \in Range(rest) THEN rest ELSE Append(rest, last)

\* the identifiers of the catalogue that are not blank and not in the
\* checkpoint loaded at run start, in input order
RemainingIdentifiers ==
    FirstOccurrences(
        SelectSeq([i \in 1..Len(catalogue) |-> catalogue[i].asin],
                  LAMBDA a : a # Blank /\ a \notin CheckpointedAtStart))

\* how many of them the cap lets through
Allowed ==
    IF scrape_limit > 0
    THEN Min(scrape_limit, Len(RemainingIdentifiers))
    ELSE Len(RemainingIdentifiers)

WithinCap == {RemainingIdentifiers[i] : i \in 1..Allowed}

CutOff == Range(RemainingIdentifiers) \ WithinCap

C12_CapTakesFirstK ==
    /\ \A i \in 1..Len(calls) : calls[i].asin \in WithinCap
    /\ Pass1Over => \A a \in WithinCap : P1Calls(a) > 0
    /\ \A a \in CutOff : a \notin processed_asins

(***************************************************************************)
(* C13.  NotFound outcome: whenever the extractor returns NotFound for an  *)
(* identifier, in pass 1 or in pass 2, the entry for its row has listing   *)
(* status 'Deleted' and label 'ASIN Not Found' and carries no title,       *)
(* price or other extracted field, in the updates and in the payload       *)
(* sent; and an identifier found missing in pass 1 is not retried in       *)
(* pass 2.                                                                 *)
(***************************************************************************)
\* the keys an entry of a missing product may hold
NotFoundKeys == {"id", "Listing Status", "Enrichment Status"}

IsNotFoundEntry(u) ==
    /\ u["Listing Status"] = "Deleted"
    /\ u["Enrichment Status"] = "ASIN Not Found"
    /\ \A k \in Keys \ NotFoundKeys : u[k] = Absent

\* the entries of a list of updates for row r
RowEntries(items, r) == {j \in 1..Len(items) : items[j]["id"] = r}

\* row by row: a NotFound yields one 'Deleted' entry without extracted fields
NotFoundRowsDeleted ==
    \A i \in 1..Len(calls) :
        calls[i].page = "not_found" =>
            /\ RowEntries(updates_to_send, calls[i].id) # {}
            /\ \A j \in RowEntries(updates_to_send, calls[i].id) :
                  IsNotFoundEntry(updates_to_send[j])
            /\ Written =>
                  /\ RowEntries(SentItems, calls[i].id) # {}
                  /\ \A j \in RowEntries(SentItems, calls[i].id) :
                        IsNotFoundEntry(SentItems[j])

C13_NotFoundIsDeletedAndFinal ==
    /\ NotFoundRowsDeleted
    /\ \A a \in ASINS :
          (\E i \in CallsOf(1, a) : calls[i].page = "not_found") => CallsOf(2, a) = {}

(***************************************************************************)
(* C14.  Sparse payload: every entry passed to the batched upsert holds    *)
(* the row id and store columns only, and an extracted field only when     *)
(* the extractor produced a non-empty value for it; no entry carries a     *)
(* field whose value is empty or None.                                     *)
(***************************************************************************)
\* the columns of the Catalogue table that the run writes
StoreColumns == {"id", "Enrichment Status", "Last Enriched At", "Listing Status",
                 "Title", "Brand", "Price"}

Sparse(u) ==
    \A k \in Keys : u[k] # Absent => k \in StoreColumns /\ u[k] \notin {None, ""}

C14_SparsePayload == \A j \in 1..Len(SentItems) : Sparse(SentItems[j])

\* the entries that payload preparation builds, and drops, are sparse
PayloadItemsAreSparse ==
    \A j \in 1..Len(updates_to_send) : Sparse(payload_item(updates_to_send[j]))

(***************************************************************************)
(* C15.  Every entry of the payload passed to the store carries the        *)
(* enrichment-status label of its outcome: 'Success' for a pass-1          *)
(* success, 'Success (on retry)' for a pass-2 success, 'ASIN Not Found'    *)
(* for NotFound, 'Scrape Failed' for a double failure; no entry is sent    *)
(* without a label.                                                        *)
(***************************************************************************)
\* the label of what the last attempt on row r returned
OutcomeLabel(r) ==
    LET last == CHOOSE k \in RowCalls(1, r) \cup RowCalls(2, r) :
                    \A m \in RowCalls(1, r) \cup RowCalls(2, r) : m <= k
    IN IF calls[last].page = "not_found" THEN "ASIN Not Found"
       ELSE IF calls[last].page \in Failing THEN "Scrape Failed"
       ELSE IF calls[last].pass = 1 THEN "Success"
       ELSE "Success (on retry)"

C15_EveryEntryLabelled ==
    \A j \in 1..Len(SentItems) :
        SentItems[j]["Enrichment Status"] = OutcomeLabel(SentItems[j]["id"])

\* the entries that payload preparation builds, and drops, are labelled
PayloadItemsAreLabelled ==
    \A j \in 1..Len(updates_to_send) :
        Exited =>
            payload_item(updates_to_send[j])["Enrichment Status"]
                = OutcomeLabel(updates_to_send[j]["id"])

(***************************************************************************)
(* C16.  Checkpoint save is crash-atomic: a crash at any point of          *)
(* save_checkpoint leaves a file that holds the whole of the set saved     *)
(* before or the whole of the new set, never a truncated or unreadable     *)
(* one, and load_checkpoint does not fail.                                 *)
(***************************************************************************)
C16_SaveIsCrashAtomic ==
    /\ file.exists => json_load_returns(file)
    /\ "load" \notin exc

(***************************************************************************)
(* C17.  Batched upsert under failure: whatever transport fault the PATCH  *)
(* of a chunk meets (an error response, or a connection fault without a    *)
(* response), update_rows sends every chunk of the rows, does not raise,   *)
(* and returns False exactly when at least one chunk failed; so a write    *)
(* failure does not end the run by an exception.                           *)
(***************************************************************************)
C17_UpdateRowsNeverRaises ==
    /\ pc = "write" =>
         LET rows_data == final_payload(updates_to_send)
         IN \A outs \in [1..NumChunks(rows_data) -> ChunkOutcomes] :
               LET r == update_rows(rows_data, outs)
               IN /\ ~r.raised
                  /\ Len(r.sent) = NumChunks(rows_data)
                  /\ r.result = FALSE <=> \E k \in 1..NumChunks(rows_data) : outs[k] # "ok"
    /\ "write" \notin exc
    /\ "ancillary" \notin exc

(***************************************************************************)
(* C18.  Resumability gap: if a run aborts after an identifier's pass-1    *)
(* attempt has failed and before the payload is sent to the store, then    *)
(* in the resumed run that identifier is not attempted again and no        *)
(* payload entry for it is written to the store.                           *)
(***************************************************************************)
Skipped(a) ==
    /\ \A i \in 1..Len(calls) : calls[i].asin # a
    /\ EntriesOf(SentItems, a) = {}

C18_GapAfterAbort == \A a \in prevFailed : Skipped(a)

(***************************************************************************)
(* C18, amended.  If a run aborts after an identifier's pass-1 attempt     *)
(* has failed and before the payload is sent to the store, and the         *)
(* checkpoint file it leaves holds the identifier, then in the resumed     *)
(* run that identifier is not attempted again and no payload entry for it  *)
(* is written to the store.                                                *)
(***************************************************************************)
C18_GapWhenCheckpointed == \A a \in prevFailed \cap CheckpointedAtStart : Skipped(a)

\* a resumed run that skipped a failed identifier, scraped another and wrote
C18_Witness ==
    /\ prevFailed \cap CheckpointedAtStart # {}
    /\ calls # <<>>
    /\ Written
    /\ Exited

(***************************************************************************)
(* C19.  Periodic checkpoint: during pass 1 the checkpoint is persisted    *)
(* each time 50 further identifiers have been processed, whatever their    *)
(* results (Success, NotFound or failure); so at any point of pass 1       *)
(* fewer than 50 processed identifiers are missing from the checkpoint     *)
(* file.                                                                   *)
(***************************************************************************)
\* the identifiers in checkpoint.json now
OnDisk == IF file.exists THEN Range(file.items) ELSE {}

\* the identifiers whose pass-1 attempt has concluded
ProcessedInPass1 == {calls[i].asin : i \in {j \in 1..Len(calls) : calls[j].pass = 1}}

C19_SavedEveryFifty ==
    pc = "pass1" =>
        /\ Len(saves) = Len(calls) \div CHECKPOINT_EVERY
        /\ Cardinality(ProcessedInPass1 \ OnDisk) < CHECKPOINT_EVERY

\* what the counter does guarantee: fewer than 50 of the identifiers that
\* were found or failed are missing from the file
CountedIdentifiersSaved ==
    pc = "pass1" =>
        Cardinality({calls[i].asin : i \in {j \in 1..Len(calls) :
                        calls[j].pass = 1 /\ calls[j].page # "not_found"}} \ OnDisk)
            < CHECKPOINT_EVERY

(***************************************************************************)
(* C20.  Ordering: the extractor calls are issued one after the other in   *)
(* the input order of the remaining rows; all pass-1 calls precede all     *)
(* pass-2 calls; the pass-2 calls follow the order in which the pass-1     *)
(* attempts failed; and in the result collection every pass-1 outcome      *)
(* precedes every pass-2 outcome, each group in attempt order.             *)
(***************************************************************************)
Pass1Calls == SelectSeq(calls, LAMBDA c : c.pass = 1)

Pass2Calls == SelectSeq(calls, LAMBDA c : c.pass = 2)

\* the pass-1 calls that failed, and those that yielded an outcome
FailedCalls == SelectSeq(Pass1Calls, LAMBDA c : c.page \in Failing)

SettledCalls == SelectSeq(Pass1Calls, LAMBDA c : c.page \notin Failing)

\* the index of row r in the catalogue
PositionOf(r) == CHOOSE i \in 1..Len(catalogue) : catalogue[i].id = r

SameRows(cs, rows) ==
    /\ Len(cs) <= Len(rows)
    /\ \A i \in 1..Len(cs) : cs[i].id = rows[i].id /\ cs[i].asin = rows[i].asin

C20_Ordering ==
    /\ \A i, j \in 1..Len(asins_to_scrape) :
          i < j => PositionOf(asins_to_scrape[i].id) < PositionOf(asins_to_scrape[j].id)
    /\ SameRows(Pass1Calls, asins_to_scrape)
    /\ calls = Pass1Calls \o Pass2Calls
    /\ SameRows(Pass2Calls, FailedCalls)
    /\ LET outcomes == SettledCalls \o Pass2Calls
       IN /\ Len(updates_to_send) = Len(outcomes)
          /\ \A i \in 1..Len(outcomes) : updates_to_send[i]["id"] = outcomes[i].id

\* a complete run that retried two different identifiers and wrote
C20_Witness ==
    /\ Exited
    /\ outcome = "complete"
    /\ Len(Pass2Calls) = 2
    /\ Pass2Calls[1].asin # Pass2Calls[2].asin
    /\ Written

(***************************************************************************)
(* C21.  Within a run the in-memory checkpoint set only grows: in every    *)
(* step of pass 1 and pass 2 the set after the step is a superset of the   *)
(* set before it, it always contains the set loaded at run start, and      *)
(* every set written by save_checkpoint is a superset of every set         *)
(* written earlier in the same run.                                        *)
(***************************************************************************)
\* load_checkpoint has returned in this run
Loaded == pc # "start" /\ catalogue # <<>> /\ exc \cap {"fetch", "load"} = {}

GrowsInPasses ==
    (pc \in {"pass1", "pass2"} /\ run' = run) => processed_asins \subseteq processed_asins'

ContainsLoaded == Loaded => CheckpointedAtStart \subseteq processed_asins

SavesGrow == \A i, j \in 1..Len(saves) : i < j => saves[i] \subseteq saves[j]

C21_SetOnlyGrows ==
    /\ [][GrowsInPasses]_vars
    /\ [](ContainsLoaded /\ SavesGrow)

\* a run that loaded a checkpoint, made a periodic save in pass 1, retried
\* in pass 2 and made its final save of a larger set
C21_Witness ==
    /\ CheckpointedAtStart # {}
    /\ Len(saves) = 2
    /\ saves[1] # saves[2]
    /\ \E i \in 1..Len(calls) : calls[i].pass = 2

(***************************************************************************)
(* C22.  Only identifiers whose final outcome is Success or Success on     *)
(* retry count as successful for the ancillary-table update: an            *)
(* identifier with outcome NotFound or Scrape Failed is never in the set   *)
(* of active identifiers used to mark ancillary rows 'Active', and when    *)
(* no identifier succeeded no ancillary write is issued.                   *)
(***************************************************************************)
\* update_ancillary_tables has been called in this run
AncillaryReached ==
    \/ pc \in {"ancillary", "clear"}
    \/ Exited /\ (outcome = "complete" \/ "ancillary" \in exc)

\* the set update_ancillary_tables works with
ActiveNow == active_asins(successful_updates(updates_to_send))

\* the rows of this run that the extractor was called for
CalledRows == {calls[i].id : i \in 1..Len(calls)}

\* the identifiers that ended with the given labels on some row
EndedWith(labels) ==
    {calls[i].asin : i \in {j \in 1..Len(calls) : OutcomeLabel(calls[j].id) \in labels}}

\* the rows PATCHed in the ancillary table
AncillaryRows == {Flatten(ancRequests)[i].id : i \in 1..Len(Flatten(ancRequests))}

\* row by row: the active identifiers are those of the rows that succeeded,
\* only their ancillary rows are PATCHed, and none when no row succeeded
ActiveAreSucceededRows ==
    AncillaryReached =>
        /\ ActiveNow = EndedWith(SuccessLabels)
        /\ AncillaryRows \subseteq
             {AncillaryTable[i].id : i \in {j \in 1..Len(AncillaryTable) :
                                              AncillaryTable[j].Asin \in ActiveNow}}
        /\ EndedWith(SuccessLabels) = {} => ancRequests = <<>>

C22_OnlySucceededAreActive ==
    /\ ActiveAreSucceededRows
    /\ AncillaryReached =>
         ActiveNow \cap EndedWith({"ASIN Not Found", "Scrape Failed"}) = {}

====
